---- MODULE Spec2Model ----
(***************************************************************************)
(* qonvert: the progress-protocol parser (src/src/progress.rs), the        *)
(* process supervisor execute_ffmpeg_encoding (src/src/lib.rs) and the     *)
(* batch loop of main (src/src/main.rs).                                   *)
(*                                                                         *)
(* Text is modelled as sequences of one-character strings, so that         *)
(* split_once, trim and parse::<u64> are computed, not assumed.            *)
(***************************************************************************)
EXTENDS Integers, Sequences, FiniteSets, TLC

\* ------------------------------------------------------------------ bounds

\* Longest line source handed to the stand-alone parser.
MaxLines == 4

\* Lines a pipe holds before a write to it blocks (the OS pipe buffer).
PipeCap == 2

\* Lines one subprocess writes to stdout and to stderr when one job is run.
MaxOut == 3
MaxErr == 3

\* Jobs of a batch, and the lines each of its subprocesses writes.
NJobs == 2
BatchPipeCap == 1
BatchOut == 2
BatchErr == 1

\* ------------------------------------------------------------------- text

\* char::is_whitespace, restricted to the characters the model uses.
WhiteSpace == {" ", "\t", "\n", "\r"}

Digits == {"0", "1", "2", "3", "4", "5", "6", "7", "8", "9"}

DigitValue(c) ==
    CASE c = "0" -> 0 [] c = "1" -> 1 [] c = "2" -> 2 [] c = "3" -> 3
      [] c = "4" -> 4 [] c = "5" -> 5 [] c = "6" -> 6 [] c = "7" -> 7
      [] c = "8" -> 8 [] c = "9" -> 9

RECURSIVE TrimStart(_)
TrimStart(s) ==
    IF s # <<>> /\ Head(s) \in WhiteSpace THEN TrimStart(Tail(s)) ELSE s

RECURSIVE TrimEnd(_)
TrimEnd(s) ==
    IF s # <<>> /\ s[Len(s)] \in WhiteSpace
    THEN TrimEnd(SubSeq(s, 1, Len(s) - 1))
    ELSE s

\* str::trim: leading and trailing whitespace removed.
trim(s) == TrimEnd(TrimStart(s))

\* Index of the first occurrence of character c in s, 0 when there is none.
IndexOf(s, c) ==
    IF \E i \in 1..Len(s) : s[i] = c
    THEN CHOOSE i \in 1..Len(s) : s[i] = c /\ \A k \in 1..(i - 1) : s[k] # c
    ELSE 0

\* str::parse::<u64>: an optional leading '+', then one or more decimal digits.
\* (Values stay far below 2^64 within the bounds; overflow is not modelled.)
RECURSIVE DecimalValue_digit_sum(_)
DecimalValue_digit_sum(s) ==
    IF s = <<>> THEN 0
    ELSE DecimalValue_digit_sum(SubSeq(s, 1, Len(s) - 1)) + DigitValue(s[Len(s)])

RECURSIVE DecimalValue(_)
DecimalValue(s) ==
    IF s = <<>> THEN 0
    ELSE 10 * DecimalValue(SubSeq(s, 1, Len(s) - 1)) + DigitValue(s[Len(s)])

parse_u64(s) ==
    LET d == IF s # <<>> /\ Head(s) = "+" THEN Tail(s) ELSE s
    IN  IF d # <<>> /\ \A i \in 1..Len(d) : d[i] \in Digits
        THEN [ok |-> TRUE, val |-> DecimalValue(d)]
        ELSE [ok |-> FALSE, val |-> 0]

\* The protocol's literals.
StrFrame == <<"f", "r", "a", "m", "e">>
StrProgress == <<"p", "r", "o", "g", "r", "e", "s", "s">>
StrContinue == <<"c", "o", "n", "t", "i", "n", "u", "e">>
StrEnd == <<"e", "n", "d">>

\* --------------------------------------------------------------- progress.rs

\* FFmpegProgressState::from_str: the two phases, and unimplemented!() (a
\* panic of the running task) for anything else.
from_str(s) ==
    IF s = StrContinue THEN "Continue"
    ELSE IF s = StrEnd THEN "End"
    ELSE "Panic"

NoSnapshot == [frame |-> 0, progress |-> "None"]

\* HashMap::get(key).is_some()
contains_key(m, k) == k \in DOMAIN m

\* HashMap::insert: last write wins.
insert_first_wins(m, k, v) ==
    [x \in (DOMAIN m) \cup {k} |-> IF x \in DOMAIN m THEN m[x] ELSE v]

insert(m, k, v) ==
    [x \in (DOMAIN m) \cup {k} |-> IF x = k THEN v ELSE m[x]]

\* HashMap::new() and the map after clear().
EmptyMap == <<>>

\* FFmpegProgress::try_from_parsed_progress. The struct's fields are evaluated
\* in order: frame (missing key, then parse::<u64>), then progress (missing
\* key, then from_str, which may panic).
try_from_parsed_progress(m) ==
    IF ~contains_key(m, StrFrame)
    THEN [kind |-> "Err", err |-> "Parse(frame)", snap |-> NoSnapshot]
    ELSE IF ~parse_u64(m[StrFrame]).ok
    THEN [kind |-> "Err", err |-> "ParseIntError", snap |-> NoSnapshot]
    ELSE IF ~contains_key(m, StrProgress)
    THEN [kind |-> "Err", err |-> "Parse(progress)", snap |-> NoSnapshot]
    ELSE IF from_str(m[StrProgress]) = "Panic"
    THEN [kind |-> "Panic", err |-> "unimplemented", snap |-> NoSnapshot]
    ELSE [kind |-> "Ok", err |-> "",
          snap |-> [frame |-> parse_u64(m[StrFrame]).val,
                    progress |-> from_str(m[StrProgress])]]

\* parse_key_value_pair: split at the first '=', both sides trimmed.
parse_key_value_pair_or_whole_line(input) ==
    LET i == IndexOf(input, "=")
    IN  IF i = 0
        THEN [some |-> TRUE, key |-> trim(input), value |-> <<>>]
        ELSE [some |-> TRUE,
              key |-> trim(SubSeq(input, 1, i - 1)),
              value |-> trim(SubSeq(input, i + 1, Len(input)))]

parse_key_value_pair(input) ==
    LET i == IndexOf(input, "=")
    IN  IF i = 0
        THEN [some |-> FALSE, key |-> <<>>, value |-> <<>>]
        ELSE [some |-> TRUE,
              key |-> trim(SubSeq(input, 1, i - 1)),
              value |-> trim(SubSeq(input, i + 1, Len(input)))]

\* The buffer after a snapshot was delivered.
keep_buffer(m) == m

after_emit(m) == EmptyMap

\* One iteration of parse's loop on one line: the buffer after it, the
\* snapshots handed to on_progress_update (none or one) and how the loop goes
\* on: "Next" (read the next line), "Err" (parse returns the error), "Panic".
parse_line(buf, line) ==
    LET kv == parse_key_value_pair(line)
        inserted == insert(buf, kv.key, kv.value)
        built == try_from_parsed_progress(inserted)
    IN  IF ~kv.some
        THEN [buf |-> buf, emit |-> <<>>, kind |-> "Next", err |-> ""]
        ELSE IF kv.key # StrProgress
        THEN [buf |-> inserted, emit |-> <<>>, kind |-> "Next", err |-> ""]
        ELSE IF built.kind = "Ok"
        THEN [buf |-> after_emit(inserted), emit |-> <<built.snap>>,
              kind |-> "Next", err |-> ""]
        ELSE [buf |-> inserted, emit |-> <<>>, kind |-> built.kind,
              err |-> built.err]

\* on_progress_update(progress), line 89: the observer is called with the
\* snapshot, by value, and has returned before the loop goes on. What an
\* observer has received is the sequence of its calls' arguments.
observe_newest_first(received, emit) == emit \o received

observe(received, emit) == received \o emit

\* ------------------------------------------------- the parser on its own
\* progress::parse driven by a line source that holds a finite sequence of
\* lines and then closes.

VARIABLES
    p_lines,      \* the line source: every line it will yield, in order
    p_pos,        \* lines read so far
    p_buf,        \* parsed_progress
    p_delivered,  \* snapshots handed to on_progress_update, in order
    p_state,      \* "reading" | "Ok" | "Err" | "Panic"
    p_err         \* the error parse returned, "" when none

pvars == <<p_lines, p_pos, p_buf, p_delivered, p_state, p_err>>

KV(k, v) == k \o <<"=">> \o v

\* The lines a line source is drawn from: well-formed frame and progress
\* lines, the same with padding, and the malformed shapes the parser meets.
LineFrame10 == KV(StrFrame, <<"1", "0">>)
LineFrame20 == KV(StrFrame, <<"2", "0">>)
LineFramePadded == <<" ">> \o StrFrame \o <<" ", "=", " ", "7", " ">>
LineFrameBad == KV(StrFrame, <<"x">>)
LineContinue == KV(StrProgress, StrContinue)
LineEnd == KV(StrProgress, StrEnd)
LineProgressBad == KV(StrProgress, <<"E", "n", "d">>)
LineOther == KV(<<"f", "p", "s">>, <<"3">>)
LineBlank == <<>>
LineNoEquals == <<"x", " ">>

ParserLines ==
    { LineFrame10, LineFrame20, LineFramePadded, LineFrameBad, LineContinue,
      LineEnd, LineProgressBad, LineOther, LineBlank, LineNoEquals }

RECURSIVE SeqsUpTo(_, _)
SeqsUpTo(S, n) ==
    IF n = 0 THEN {<<>>}
    ELSE LET shorter == SeqsUpTo(S, n - 1)
         IN  shorter \cup {Append(s, x) : s \in {t \in shorter : Len(t) = n - 1}, x \in S}


\* -------------------------------------------------- lib.rs and main.rs
\* One batch: main dispatches every job with for_each_concurrent; each job
\* is one call of execute_ffmpeg_encoding supervising one ffmpeg subprocess
\* through two bounded pipes.

VARIABLES
    jobs,             \* input_file_paths, as job ids 1..n
    budget,           \* this run's subprocesses: pipe capacity, lines written per stream
    verbose,          \* args.verbose
    probe_ok,         \* per job: whether ffprobe yields a frame count for it
    main_pc,          \* "input_paths" | "output_paths" | "failed" (main returned
                      \* Err) | "dispatch" | "finished" (main returned Ok) | "panicked"
    pc,               \* per job: "queued" | "parse" | "drain" | "wait" | "done"
    proc,             \* per job: "none" | "running" | "exited"
    exit_code,        \* per job: the subprocess's exit status once exited
    blocked,          \* per job: the write the subprocess is blocked in
    out_pipe,         \* per job: lines in the stdout pipe
    err_pipe,         \* per job: lines in the stderr pipe
    out_count,        \* per job: stdout lines the subprocess has written
    err_written,      \* per job: stderr lines the subprocess has written
    parsed_progress,  \* per job: parse's buffer
    parse_ret,        \* per job: what progress::parse returned (line 102)
    delivered,        \* per job: snapshots handed to on_progress_update
    error_string,     \* per job: error_string
    err_read,         \* per job: stderr lines read by the supervisor
    out_eof,          \* per job: stdout_reader has yielded None
    err_eof,          \* per job: stderr_reader has yielded None
    wait_status,      \* per job: what the spawned process.wait() task returned
    status,           \* per job: the status the supervisor collected (line 109)
    result,           \* per job: what execute_ffmpeg_encoding returned
    bar_pos,          \* progress_bar's position
    printed           \* lines printed through progress_bar.println, in order

svars ==
    <<jobs, budget, verbose, probe_ok, main_pc, pc, proc, exit_code, blocked,
      out_pipe, err_pipe, out_count, err_written, parsed_progress, parse_ret,
      delivered, error_string, err_read, out_eof, err_eof, wait_status, status, result,
      bar_pos, printed>>

vars == <<pvars, svars>>

JobIds == 1..NJobs

\* ExitStatus: 0 is success, anything else is not.
ExitCodes == {0, 1}

\* No status yet.
NoStatus == -1

\* ExitStatus::success
success(code) == code = 0

\* What a subprocess writes when one job is run, and in a batch.
OutLines == {LineFrame10, LineEnd, LineProgressBad, LineFrameBad}
ErrLines == {<<"a">>, <<>>, <<"b", " ">>}
BatchOutLines == {LineFrame10, LineEnd, LineProgressBad}
BatchErrLines == {<<"a">>}

NoReturn == [kind |-> "None", err |-> ""]

NoWrite == [stream |-> "none", line |-> <<>>]

NoResult == [kind |-> "None", err |-> "", status |-> NoStatus, stderr |-> <<>>]
OkResult == [kind |-> "Ok", err |-> "", status |-> NoStatus, stderr |-> <<>>]
SpawnError == [kind |-> "SpawnError", err |-> "io", status |-> NoStatus, stderr |-> <<>>]
ProtocolError(e) == [kind |-> "ProtocolError", err |-> e, status |-> NoStatus, stderr |-> <<>>]
FFmpegError(st, text) == [kind |-> "FFmpegError", err |-> "", status |-> st, stderr |-> text]

\* get_frame_count_from_file_path: ffprobe's output trimmed and parsed as u64;
\* an Err when ffprobe cannot be run or prints no number.
get_frame_count_from_file_path(j) ==
    IF probe_ok[j] THEN [kind |-> "Ok", err |-> ""] ELSE [kind |-> "Err", err |-> "ffprobe"]

\* The supervisor of job j still holds the read ends of both pipes: they are
\* locals of execute_ffmpeg_encoding, dropped when it returns or unwinds.
ReaderOpen(j) == main_pc = "dispatch" /\ pc[j] \in {"parse", "drain", "wait"}

\* error_string after one more stderr line (line 105).
append_error_line(text, line) == trim(text \o <<"\n">> \o line)

\* The line main prints for a finished job (lines 184-206): the output path
\* on success; the input path on failure, with the error when verbose.
ReportLine(j, r) ==
    [job |-> j,
     ok |-> r.kind = "Ok",
     detail |-> IF r.kind # "Ok" /\ verbose THEN r ELSE NoResult]

\* execute_ffmpeg_encoding returns r to the job's closure, which runs on to
\* its end: the progress bar moves, the report line is printed.
Return_inc_on_success(j, r) ==
    /\ result' = [result EXCEPT ![j] = r]
    /\ pc' = [pc EXCEPT ![j] = "done"]
    /\ bar_pos' = IF r.kind = "Ok" THEN bar_pos + 1 ELSE bar_pos
    /\ printed' = Append(printed, ReportLine(j, r))

\* execute_ffmpeg_encoding returns r to the job's closure, which runs on to
\* its end without suspending: progress_bar.inc(1), then the report line.
Return(j, r) ==
    /\ result' = [result EXCEPT ![j] = r]
    /\ pc' = [pc EXCEPT ![j] = "done"]
    /\ bar_pos' = bar_pos + 1
    /\ printed' = Append(printed, ReportLine(j, r))

SInitAt(js, b, at) ==
    /\ jobs = js
    /\ budget = b
    /\ verbose \in BOOLEAN
    /\ probe_ok \in [JobIds -> BOOLEAN]
    /\ \A j \in JobIds \ js : probe_ok[j]
    /\ main_pc = at
    /\ pc = [j \in JobIds |-> "queued"]
    /\ proc = [j \in JobIds |-> "none"]
    /\ exit_code = [j \in JobIds |-> NoStatus]
    /\ blocked = [j \in JobIds |-> NoWrite]
    /\ out_pipe = [j \in JobIds |-> <<>>]
    /\ err_pipe = [j \in JobIds |-> <<>>]
    /\ out_count = [j \in JobIds |-> 0]
    /\ err_written = [j \in JobIds |-> <<>>]
    /\ parsed_progress = [j \in JobIds |-> EmptyMap]
    /\ parse_ret = [j \in JobIds |-> NoReturn]
    /\ delivered = [j \in JobIds |-> <<>>]
    /\ error_string = [j \in JobIds |-> <<>>]
    /\ err_read = [j \in JobIds |-> 0]
    /\ out_eof = [j \in JobIds |-> FALSE]
    /\ err_eof = [j \in JobIds |-> FALSE]
    /\ wait_status = [j \in JobIds |-> NoStatus]
    /\ status = [j \in JobIds |-> NoStatus]
    /\ result = [j \in JobIds |-> NoResult]
    /\ bar_pos = 0
    /\ printed = <<>>

\* main at the dispatch of the jobs js, its setup done.
SInitWith(js, b) == SInitAt(js, b, "dispatch")

\* The parser on its own is idle while a batch runs, and the other way round.
ParseIdle ==
    /\ p_lines = <<>>
    /\ p_pos = 0
    /\ p_buf = EmptyMap
    /\ p_delivered = <<>>
    /\ p_state = "idle"
    /\ p_err = ""

\* ---- main: setup

\* What a path given on the command line, or found in a directory, is.
PathKinds == {"file", "dir"}

\* args.input_paths, and what read_dir yields for a directory: an error, or
\* its entries.
InputPathArgs == SeqsUpTo(PathKinds, NJobs)

Listings ==
    {[ok |-> FALSE, entries |-> <<>>]}
        \cup {[ok |-> TRUE, entries |-> e] : e \in SeqsUpTo(PathKinds, NJobs)}

CountFiles(paths) == Cardinality({i \in 1..Len(paths) : paths[i] = "file"})

\* get_input_file_paths (main.rs lines 95-132): a single directory yields the
\* files inside it; otherwise no path may be a directory. The result is the
\* number of input files.
get_input_file_paths(input_paths, listing) ==
    IF Len(input_paths) = 1 /\ input_paths[1] = "dir"
    THEN IF listing.ok
         THEN [kind |-> "Ok", n |-> CountFiles(listing.entries)]
         ELSE [kind |-> "Err", n |-> 0]
    ELSE IF \E i \in 1..Len(input_paths) : input_paths[i] = "dir"
    THEN [kind |-> "Err", n |-> 0]
    ELSE [kind |-> "Ok", n |-> Len(input_paths)]

\* get_output_file_paths (main.rs lines 65-93): the output directory must be
\* a directory; for every input path, strip_prefix(".")? fails when the
\* directory does not start with ".".
get_output_file_paths(is_dir, under_dot, n) ==
    IF ~is_dir THEN [kind |-> "Err"]
    ELSE IF n > 0 /\ ~under_dot THEN [kind |-> "Err"]
    ELSE [kind |-> "Ok"]

\* get_input_file_paths(&args.input_paths).await? (line 138)
ResolveInputPaths ==
    /\ main_pc = "input_paths"
    /\ \E input_paths \in InputPathArgs, listing \in Listings :
          LET r == get_input_file_paths(input_paths, listing)
          IN  IF r.kind = "Ok"
              THEN /\ jobs' = 1..r.n
                   /\ main_pc' = "output_paths"
              ELSE /\ main_pc' = "failed"
                   /\ UNCHANGED jobs
    /\ UNCHANGED pvars
    /\ UNCHANGED <<budget, verbose, probe_ok, pc, proc, exit_code, blocked,
                   out_pipe, err_pipe, out_count, err_written, parsed_progress,
                   parse_ret, delivered, error_string, err_read, out_eof,
                   err_eof, wait_status, status, result, bar_pos, printed>>

\* get_output_file_paths(...).await? (lines 139-143), then the codec choice
\* and the progress bar (lines 146-171).
ResolveOutputPaths ==
    /\ main_pc = "output_paths"
    /\ \E is_dir \in BOOLEAN, under_dot \in BOOLEAN :
          main_pc' = IF get_output_file_paths(is_dir, under_dot, Cardinality(jobs)).kind = "Ok"
                     THEN "dispatch"
                     ELSE "failed"
    /\ UNCHANGED pvars
    /\ UNCHANGED <<jobs, budget, verbose, probe_ok, pc, proc, exit_code, blocked,
                   out_pipe, err_pipe, out_count, err_written, parsed_progress,
                   parse_ret, delivered, error_string, err_read, out_eof,
                   err_eof, wait_status, status, result, bar_pos, printed>>

\* ---- main: for_each_concurrent

\* for_each_concurrent takes the stream's items in order and polls each new
\* future at once: set_message, then execute_ffmpeg_encoding up to its first
\* suspension. Here command.spawn() succeeds: the pipes exist, the wait task
\* is spawned and parse waits for the first stdout line.
StartJob(j) ==
    /\ main_pc = "dispatch"
    /\ j \in jobs
    /\ pc[j] = "queued"
    /\ \A k \in jobs : k < j => pc[k] # "queued"
    /\ proc' = [proc EXCEPT ![j] = "running"]
    /\ pc' = [pc EXCEPT ![j] = "parse"]
    /\ UNCHANGED pvars
    /\ UNCHANGED <<jobs, budget, verbose, probe_ok, main_pc, exit_code, blocked,
                   out_pipe, err_pipe, out_count, err_written, parsed_progress,
                   parse_ret, delivered, error_string, err_read, out_eof,
                   err_eof, wait_status, status, result, bar_pos, printed>>

\* command.spawn()? fails: execute_ffmpeg_encoding returns the error at once.
StartJobSpawnFails(j) ==
    /\ main_pc = "dispatch"
    /\ j \in jobs
    /\ pc[j] = "queued"
    /\ \A k \in jobs : k < j => pc[k] # "queued"
    /\ Return(j, SpawnError)
    /\ UNCHANGED pvars
    /\ UNCHANGED <<jobs, budget, verbose, probe_ok, main_pc, proc, exit_code,
                   blocked, out_pipe, err_pipe, out_count, err_written,
                   parsed_progress, parse_ret, delivered, error_string,
                   err_read, out_eof, err_eof, wait_status, status>>

\* Every job's future has completed: progress_bar.finish(), main returns Ok.
MainFinish ==
    /\ main_pc = "dispatch"
    /\ \A j \in jobs : pc[j] = "done"
    /\ main_pc' = "finished"
    /\ UNCHANGED pvars
    /\ UNCHANGED <<jobs, budget, verbose, probe_ok, pc, proc, exit_code, blocked,
                   out_pipe, err_pipe, out_count, err_written, parsed_progress,
                   parse_ret, delivered, error_string, err_read, out_eof,
                   err_eof, wait_status, status, result, bar_pos, printed>>

\* ---- the ffmpeg subprocess

\* The subprocess writes one more line. With room in the pipe the write
\* completes; with the pipe full the subprocess blocks in it.
ProcWrite(j, stream, line) ==
    /\ proc[j] = "running"
    /\ blocked[j] = NoWrite
    /\ ReaderOpen(j)
    /\ \/ /\ stream = "out"
          /\ line \in budget.out_lines
          /\ out_count[j] < budget.out
          /\ IF Len(out_pipe[j]) < budget.cap
             THEN /\ out_pipe' = [out_pipe EXCEPT ![j] = Append(@, line)]
                  /\ out_count' = [out_count EXCEPT ![j] = @ + 1]
                  /\ UNCHANGED blocked
             ELSE /\ blocked' = [blocked EXCEPT ![j] = [stream |-> stream, line |-> line]]
                  /\ UNCHANGED <<out_pipe, out_count>>
          /\ UNCHANGED <<err_pipe, err_written>>
       \/ /\ stream = "err"
          /\ line \in budget.err_lines
          /\ Len(err_written[j]) < budget.err
          /\ IF Len(err_pipe[j]) < budget.cap
             THEN /\ err_pipe' = [err_pipe EXCEPT ![j] = Append(@, line)]
                  /\ err_written' = [err_written EXCEPT ![j] = Append(@, line)]
                  /\ UNCHANGED blocked
             ELSE /\ blocked' = [blocked EXCEPT ![j] = [stream |-> stream, line |-> line]]
                  /\ UNCHANGED <<err_pipe, err_written>>
          /\ UNCHANGED <<out_pipe, out_count>>
    /\ UNCHANGED pvars
    /\ UNCHANGED <<jobs, budget, verbose, probe_ok, main_pc, pc, proc, exit_code,
                   parsed_progress, parse_ret, delivered, error_string, err_read,
                   out_eof, err_eof, wait_status, status, result, bar_pos,
                   printed>>

\* The reader has made room: the blocked write completes.
ProcUnblock(j) ==
    /\ proc[j] = "running"
    /\ blocked[j] # NoWrite
    /\ ReaderOpen(j)
    /\ \/ /\ blocked[j].stream = "out"
          /\ Len(out_pipe[j]) < budget.cap
          /\ out_pipe' = [out_pipe EXCEPT ![j] = Append(@, blocked[j].line)]
          /\ out_count' = [out_count EXCEPT ![j] = @ + 1]
          /\ UNCHANGED <<err_pipe, err_written>>
       \/ /\ blocked[j].stream = "err"
          /\ Len(err_pipe[j]) < budget.cap
          /\ err_pipe' = [err_pipe EXCEPT ![j] = Append(@, blocked[j].line)]
          /\ err_written' = [err_written EXCEPT ![j] = Append(@, blocked[j].line)]
          /\ UNCHANGED <<out_pipe, out_count>>
    /\ blocked' = [blocked EXCEPT ![j] = NoWrite]
    /\ UNCHANGED pvars
    /\ UNCHANGED <<jobs, budget, verbose, probe_ok, main_pc, pc, proc, exit_code,
                   parsed_progress, parse_ret, delivered, error_string, err_read,
                   out_eof, err_eof, wait_status, status, result, bar_pos,
                   printed>>

\* The subprocess exits, which closes the write ends of its pipes. It exits
\* when it is not inside a write; a write to a pipe whose read end is gone
\* fails, and the subprocess ends then too.
ProcExit(j, code) ==
    /\ proc[j] = "running"
    /\ blocked[j] = NoWrite \/ ~ReaderOpen(j)
    /\ code \in ExitCodes
    /\ proc' = [proc EXCEPT ![j] = "exited"]
    /\ exit_code' = [exit_code EXCEPT ![j] = code]
    /\ blocked' = [blocked EXCEPT ![j] = NoWrite]
    /\ UNCHANGED pvars
    /\ UNCHANGED <<jobs, budget, verbose, probe_ok, main_pc, pc, out_pipe,
                   err_pipe, out_count, err_written, parsed_progress, parse_ret,
                   delivered, error_string, err_read, out_eof, err_eof,
                   wait_status, status, result, bar_pos, printed>>

\* ---- execute_ffmpeg_encoding

\* The task spawned at line 98: process.wait() resolves once the subprocess
\* has exited. It runs on the runtime, beside main's task.
WaitTask_after_streams(j) ==
    /\ main_pc = "dispatch"
    /\ pc[j] = "wait"
    /\ proc[j] = "exited"
    /\ wait_status[j] = NoStatus
    /\ wait_status' = [wait_status EXCEPT ![j] = exit_code[j]]
    /\ UNCHANGED pvars
    /\ UNCHANGED <<jobs, budget, verbose, probe_ok, main_pc, pc, proc, exit_code,
                   blocked, out_pipe, err_pipe, out_count, err_written,
                   parsed_progress, parse_ret, delivered, error_string, err_read,
                   out_eof, err_eof, status, result, bar_pos, printed>>

WaitTask(j) ==
    /\ main_pc = "dispatch"
    /\ proc[j] = "exited"
    /\ wait_status[j] = NoStatus
    /\ wait_status' = [wait_status EXCEPT ![j] = exit_code[j]]
    /\ UNCHANGED pvars
    /\ UNCHANGED <<jobs, budget, verbose, probe_ok, main_pc, pc, proc, exit_code,
                   blocked, out_pipe, err_pipe, out_count, err_written,
                   parsed_progress, parse_ret, delivered, error_string, err_read,
                   out_eof, err_eof, status, result, bar_pos, printed>>

\* next_line() yields None: the pipe is empty and its write end is closed.
EndOfStreamWhenEmpty(j, pipe) == pipe = <<>>

EndOfStream(j, pipe) == pipe = <<>> /\ proc[j] = "exited"

\* parse(...).await? with parse returning Err(e): the error is returned at
\* once (line 102).
SwallowParseError(j, e) ==
    /\ pc' = [pc EXCEPT ![j] = "drain"]
    /\ UNCHANGED <<result, bar_pos, printed>>

PropagateParseError(j, e) == Return(j, ProtocolError(e))

\* The observer handed to job j's call of execute_ffmpeg_encoding, which the
\* call hands on to parse (line 102): snapshots of job j reach job j's
\* observer.
on_progress_update_shared(sinks, j, emit) ==
    [k \in DOMAIN sinks |-> observe(sinks[k], emit)]

on_progress_update(sinks, j, emit) ==
    [sinks EXCEPT ![j] = observe(@, emit)]

\* parse reads one line of stdout (progress.rs lines 80-92).
ReadStdout(j) ==
    /\ main_pc = "dispatch"
    /\ pc[j] = "parse"
    /\ out_pipe[j] # <<>>
    /\ out_pipe' = [out_pipe EXCEPT ![j] = Tail(@)]
    /\ LET r == parse_line(parsed_progress[j], Head(out_pipe[j]))
       IN  /\ parsed_progress' = [parsed_progress EXCEPT ![j] = r.buf]
           /\ delivered' = on_progress_update(delivered, j, r.emit)
           /\ \/ /\ r.kind = "Next"
                 /\ UNCHANGED <<main_pc, pc, parse_ret, result, bar_pos, printed>>
              \/ /\ r.kind = "Err"
                 /\ parse_ret' = [parse_ret EXCEPT ![j] = [kind |-> "Err", err |-> r.err]]
                 /\ PropagateParseError(j, r.err)
                 /\ UNCHANGED main_pc
              \/ /\ r.kind = "Panic"
                 /\ main_pc' = "panicked"
                 /\ UNCHANGED <<pc, parse_ret, result, bar_pos, printed>>
    /\ UNCHANGED pvars
    /\ UNCHANGED <<jobs, budget, verbose, probe_ok, proc, exit_code, blocked,
                   err_pipe, out_count, err_written, error_string, err_read,
                   out_eof, err_eof, wait_status, status>>

\* stdout is at its end: parse returns Ok(()) and the stderr loop starts.
StdoutEof(j) ==
    /\ main_pc = "dispatch"
    /\ pc[j] = "parse"
    /\ EndOfStream(j, out_pipe[j])
    /\ out_eof' = [out_eof EXCEPT ![j] = TRUE]
    /\ parse_ret' = [parse_ret EXCEPT ![j] = [kind |-> "Ok", err |-> ""]]
    /\ pc' = [pc EXCEPT ![j] = "drain"]
    /\ UNCHANGED pvars
    /\ UNCHANGED <<jobs, budget, verbose, probe_ok, main_pc, proc, exit_code,
                   blocked, out_pipe, err_pipe, out_count, err_written,
                   parsed_progress, delivered, error_string, err_read, err_eof,
                   wait_status, status, result, bar_pos, printed>>

\* The stderr loop reads one line (lines 104-106).
ReadStderr(j) ==
    /\ main_pc = "dispatch"
    /\ pc[j] = "drain"
    /\ err_pipe[j] # <<>>
    /\ err_pipe' = [err_pipe EXCEPT ![j] = Tail(@)]
    /\ error_string' = [error_string EXCEPT ![j] = append_error_line(@, Head(err_pipe[j]))]
    /\ err_read' = [err_read EXCEPT ![j] = @ + 1]
    /\ UNCHANGED pvars
    /\ UNCHANGED <<jobs, budget, verbose, probe_ok, main_pc, pc, proc, exit_code,
                   blocked, out_pipe, out_count, err_written, parsed_progress,
                   parse_ret, delivered, out_eof, err_eof, wait_status, status,
                   result, bar_pos, printed>>

\* stderr is at its end: the loop ends and the supervisor awaits the wait task.
StderrEof(j) ==
    /\ main_pc = "dispatch"
    /\ pc[j] = "drain"
    /\ EndOfStream(j, err_pipe[j])
    /\ err_eof' = [err_eof EXCEPT ![j] = TRUE]
    /\ pc' = [pc EXCEPT ![j] = "wait"]
    /\ UNCHANGED pvars
    /\ UNCHANGED <<jobs, budget, verbose, probe_ok, main_pc, proc, exit_code,
                   blocked, out_pipe, err_pipe, out_count, err_written,
                   parsed_progress, parse_ret, delivered, error_string, err_read,
                   out_eof, wait_status, status, result, bar_pos, printed>>

\* What execute_ffmpeg_encoding returns for an exit status (lines 111-118).
outcome_ignoring_status(st, text) == OkResult

outcome(st, text) == IF ~success(st) THEN FFmpegError(st, text) ELSE OkResult

\* result_handle.await?? yields the status; the outcome is returned.
AwaitStatus(j) ==
    /\ main_pc = "dispatch"
    /\ pc[j] = "wait"
    /\ wait_status[j] # NoStatus
    /\ status' = [status EXCEPT ![j] = wait_status[j]]
    /\ Return(j, outcome(wait_status[j], error_string[j]))
    /\ UNCHANGED pvars
    /\ UNCHANGED <<jobs, budget, verbose, probe_ok, main_pc, proc, exit_code,
                   blocked, out_pipe, err_pipe, out_count, err_written,
                   parsed_progress, parse_ret, delivered, error_string, err_read,
                   out_eof, err_eof, wait_status>>

\* ---- progress::parse on a line source of its own

ParseInit ==
    /\ p_lines \in SeqsUpTo(ParserLines, MaxLines)
    /\ p_pos = 0
    /\ p_buf = EmptyMap
    /\ p_delivered = <<>>
    /\ p_state = "reading"
    /\ p_err = ""

\* reader.next_line() yields a line: one iteration of the loop.
ParseReadLine ==
    /\ p_state = "reading"
    /\ p_pos < Len(p_lines)
    /\ LET r == parse_line(p_buf, p_lines[p_pos + 1])
       IN  /\ p_pos' = p_pos + 1
           /\ p_buf' = r.buf
           /\ p_delivered' = observe(p_delivered, r.emit)
           /\ p_state' = IF r.kind = "Next" THEN "reading" ELSE r.kind
           /\ p_err' = r.err
    /\ UNCHANGED p_lines
    /\ UNCHANGED svars

\* reader.next_line() yields None: the loop ends and parse returns Ok(()).
ParseEof ==
    /\ p_state = "reading"
    /\ p_pos = Len(p_lines)
    /\ p_state' = "Ok"
    /\ UNCHANGED <<p_lines, p_pos, p_buf, p_delivered, p_err>>
    /\ UNCHANGED svars

ParseNext == ParseReadLine \/ ParseEof

\* ---- the specifications

\* The parser on its own: no batch is running.
ParseSpecInit ==
    /\ ParseInit
    /\ SInitWith({}, [cap |-> 0, out |-> 0, err |-> 0, out_lines |-> {}, err_lines |-> {}])
    /\ ~verbose

SpecParse == ParseSpecInit /\ [][ParseNext]_vars

\* Every step job j can take.
JobNext(j) ==
    \/ StartJob(j)
    \/ StartJobSpawnFails(j)
    \/ \E stream \in {"out", "err"}, line \in OutLines \cup ErrLines :
           ProcWrite(j, stream, line)
    \/ ProcUnblock(j)
    \/ \E code \in ExitCodes : ProcExit(j, code)
    \/ WaitTask(j)
    \/ ReadStdout(j)
    \/ StdoutEof(j)
    \/ ReadStderr(j)
    \/ StderrEof(j)
    \/ AwaitStatus(j)

Next ==
    \/ \E j \in JobIds : JobNext(j)
    \/ MainFinish

\* One job, supervised from spawn to return.
Init ==
    /\ SInitWith({1}, [cap |-> PipeCap, out |-> MaxOut, err |-> MaxErr,
                       out_lines |-> OutLines, err_lines |-> ErrLines])
    /\ probe_ok[1]
    /\ ParseIdle

Spec == Init /\ [][Next]_vars

\* A batch of NJobs jobs.
BatchInit ==
    /\ SInitWith(JobIds, [cap |-> BatchPipeCap, out |-> BatchOut, err |-> BatchErr,
                          out_lines |-> BatchOutLines, err_lines |-> BatchErrLines])
    /\ ParseIdle

SpecBatch == BatchInit /\ [][Next]_vars

\* main from its first line: setup, then the batch of the files it resolved.
MainInit ==
    /\ SInitAt({}, [cap |-> BatchPipeCap, out |-> BatchOut, err |-> BatchErr,
                    out_lines |-> BatchOutLines, err_lines |-> BatchErrLines],
               "input_paths")
    /\ ParseIdle

MainNext ==
    \/ ResolveInputPaths
    \/ ResolveOutputPaths
    \/ Next

SpecMain == MainInit /\ [][MainNext]_vars

\* ------------------------------------------------------------------ claims

\* ---- the protocol as the specification words it, for the parser's claims

ValidFrameLines == {LineFrame10, LineFrame20, LineFramePadded}
ValidProgressLines == {LineContinue, LineEnd}
FrameKeyLines == ValidFrameLines \cup {LineFrameBad}
ProgressKeyLines == ValidProgressLines \cup {LineProgressBad}

FrameOf(l) ==
    CASE l = LineFrame10 -> 10 [] l = LineFrame20 -> 20 [] l = LineFramePadded -> 7

PhaseOf(l) == CASE l = LineContinue -> "Continue" [] l = LineEnd -> "End"

\* A frame-key line lies between the last progress-key line before line i
\* (or the start) and line i.
FrameInCycle(ls, i) ==
    \E k \in 1..(i - 1) :
        /\ ls[k] \in FrameKeyLines
        /\ \A m \in (k + 1)..(i - 1) : ls[m] \notin ProgressKeyLines

\* Every line is a valid frame or progress line, and every progress line has
\* a frame line in its cycle.
WellFormed(ls) ==
    \A i \in 1..Len(ls) :
        /\ ls[i] \in ValidFrameLines \cup ValidProgressLines
        /\ ls[i] \in ValidProgressLines => FrameInCycle(ls, i)

LastFrameBefore(ls, i) ==
    CHOOSE k \in 1..(i - 1) :
        /\ ls[k] \in ValidFrameLines
        /\ \A m \in (k + 1)..(i - 1) : ls[m] \notin ValidFrameLines

\* One snapshot per progress line among the first n lines: the frame of the
\* frame line last seen before it, and its phase.
RECURSIVE ExpectedSnapshots(_, _)
ExpectedSnapshots(ls, n) ==
    IF n = 0 THEN <<>>
    ELSE IF ls[n] \in ValidProgressLines
    THEN Append(ExpectedSnapshots(ls, n - 1),
                [frame |-> FrameOf(ls[LastFrameBefore(ls, n)]),
                 progress |-> PhaseOf(ls[n])])
    ELSE ExpectedSnapshots(ls, n - 1)

ProgressKeysBefore(ls, i) ==
    Cardinality({k \in 1..(i - 1) : ls[k] \in ProgressKeyLines})

RoundTripStream == <<LineFrame10, LineContinue, LineFrame20, LineEnd>>

\* C2: on a well-formed line sequence (valid frame=N and progress=P lines,
\* each progress line with a frame line in its cycle) parse has, after every
\* line, delivered exactly one snapshot per progress line read, carrying the
\* most recently seen frame value and the line's phase, and it ends Ok; the
\* stream frame=10, progress=continue, frame=20, progress=end delivers
\* {10, Continue} then {20, End}.
C2_OneSnapshotPerProgressKey ==
    /\ WellFormed(p_lines) =>
           /\ p_state \in {"reading", "Ok"}
           /\ p_delivered = ExpectedSnapshots(p_lines, p_pos)
    /\ (p_lines = RoundTripStream /\ p_state = "Ok") =>
           p_delivered = << [frame |-> 10, progress |-> "Continue"],
                            [frame |-> 20, progress |-> "End"] >>

\* parse has finished a well-formed stream in which a later frame value
\* overwrote an earlier one within a cycle.
C2_Witness ==
    /\ p_state = "Ok"
    /\ WellFormed(p_lines)
    /\ p_lines = <<LineFrame10, LineFrame20, LineContinue, LineFramePadded>>
    /\ p_delivered = << [frame |-> 20, progress |-> "Continue"] >>

\* C3: when the line just read has the key progress and no line with the
\* key frame was read since the last emission (or the start), parse has
\* returned the missing-key error for frame and the observer was not invoked
\* for this line: only the earlier progress lines delivered a snapshot.
C3_ProgressWithoutFrameIsMissingKey ==
    (/\ p_pos >= 1
     /\ p_lines[p_pos] \in ProgressKeyLines
     /\ ~FrameInCycle(p_lines, p_pos)) =>
        /\ p_state = "Err"
        /\ p_err = "Parse(frame)"
        /\ Len(p_delivered) = ProgressKeysBefore(p_lines, p_pos)

\* A snapshot was delivered, and the next progress line came with no frame
\* line of its own: the earlier cycle's frame is not reused.
C3_Witness ==
    /\ p_state = "Err"
    /\ p_err = "Parse(frame)"
    /\ p_pos = 3
    /\ p_lines[1] \in ValidFrameLines
    /\ p_lines[2] \in ValidProgressLines
    /\ p_lines[3] \in ValidProgressLines
    /\ Len(p_delivered) = 1

\* C4: when the line just read is a progress line whose value is neither
\* continue nor end, parse has returned an error value and delivered no
\* snapshot for it; the running task is not aborted.
C4_UnrecognizedProgressIsError ==
    (/\ p_pos >= 1
     /\ p_lines[p_pos] \in ProgressKeyLines \ ValidProgressLines) =>
        /\ p_state = "Err"
        /\ Len(p_delivered) = ProgressKeysBefore(p_lines, p_pos)

\* The position of the k-th line with the key progress.
NthProgressKey(ls, k) ==
    CHOOSE i \in 1..Len(ls) :
        ls[i] \in ProgressKeyLines /\ ProgressKeysBefore(ls, i) = k - 1

\* The last line with the key frame before line i.
LastFrameKeyBefore(ls, i) ==
    CHOOSE k \in 1..(i - 1) :
        /\ ls[k] \in FrameKeyLines
        /\ \A m \in (k + 1)..(i - 1) : ls[m] \notin FrameKeyLines

\* The k-th snapshot the observer received is the one of the k-th progress
\* line of the source: that line's phase, and the frame of its cycle.
SnapshotOfNthProgressLine(k) ==
    LET i == NthProgressKey(p_lines, k)
    IN  /\ i <= p_pos
        /\ p_lines[i] \in ValidProgressLines
        /\ p_delivered[k].progress = PhaseOf(p_lines[i])
        /\ FrameInCycle(p_lines, i)
        /\ p_lines[LastFrameKeyBefore(p_lines, i)] \in ValidFrameLines
        /\ p_delivered[k].frame = FrameOf(p_lines[LastFrameKeyBefore(p_lines, i)])

DeliveredInEmissionOrder ==
    /\ p_state \in {"reading", "Ok"} =>
           Len(p_delivered) = ProgressKeysBefore(p_lines, p_pos + 1)
    /\ p_state \in {"Err", "Panic"} =>
           Len(p_delivered) = ProgressKeysBefore(p_lines, p_pos)
    /\ \A k \in 1..Len(p_delivered) : SnapshotOfNthProgressLine(k)

DeliveredOnceAndDiscarded ==
    /\ Len(p_delivered') <= Len(p_delivered) + 1
    /\ SubSeq(p_delivered', 1, Len(p_delivered)) = p_delivered
    /\ p_delivered' # p_delivered => (p_pos' = p_pos + 1 /\ p_buf' = EmptyMap)

\* C11: for any line source, the k-th snapshot the observer has received is
\* the one of the k-th progress line (its phase, the frame of its cycle), so
\* snapshots arrive in emission order and once each; whenever parse is about
\* to read a line, the observer has been called for every progress line read
\* so far; a step delivers at most one snapshot, appended to the earlier
\* ones, and leaves the buffer empty when it delivers one.
C11_DeliveredInOrderOnceAndDiscarded ==
    []DeliveredInEmissionOrder /\ [][DeliveredOnceAndDiscarded]_vars

\* Two snapshots were delivered, with other keys and ignored lines between.
C11_Witness ==
    /\ p_state = "Ok"
    /\ p_lines = <<LineFrame20, LineEnd, LineFramePadded, LineContinue>>
    /\ p_delivered = << [frame |-> 20, progress |-> "End"],
                        [frame |-> 7, progress |-> "Continue"] >>
    /\ p_buf = EmptyMap

\* C12: for any line source, an End snapshot is the last snapshot delivered:
\* the delivered sequence holds at most one End and nothing after it.
C12_EndIsLastSnapshot ==
    \A k \in 1..Len(p_delivered) :
        p_delivered[k].progress = "End" => k = Len(p_delivered)

FramesNonDecreasing(snaps) ==
    \A i, k \in 1..Len(snaps) : i < k => snaps[i].frame <= snaps[k].frame

\* The values of the source's frame lines never decrease from line to line.
SourceFramesNonDecreasing(ls) ==
    \A i, k \in 1..Len(ls) :
        (i < k /\ ls[i] \in ValidFrameLines /\ ls[k] \in ValidFrameLines) =>
            FrameOf(ls[i]) <= FrameOf(ls[k])

\* C13, as claimed: on a well-formed line source (valid frame and progress
\* lines, each progress line with a frame line in its cycle) the frames of
\* the delivered snapshots never decrease.
C13_FramesNonDecreasingWhenWellFormed ==
    WellFormed(p_lines) => FramesNonDecreasing(p_delivered)

\* C13, amended: on a well-formed line source whose frame lines carry values
\* that never decrease from line to line, the frames of the delivered
\* snapshots never decrease.
C13_FramesNonDecreasingWhenSourceIs ==
    (WellFormed(p_lines) /\ SourceFramesNonDecreasing(p_lines)) =>
        FramesNonDecreasing(p_delivered)

\* Two snapshots with rising frames were delivered from a well-formed source.
C13_Witness ==
    /\ p_state = "Ok"
    /\ p_lines = <<LineFramePadded, LineContinue, LineFrame20, LineEnd>>
    /\ WellFormed(p_lines) /\ SourceFramesNonDecreasing(p_lines)
    /\ p_delivered = << [frame |-> 7, progress |-> "Continue"],
                        [frame |-> 20, progress |-> "End"] >>

\* A line that is blank or has no '='.
IgnoredLine(l) == \A i \in 1..Len(l) : l[i] # "="

SourceClosed == p_state = "reading" /\ p_pos = Len(p_lines)

CleanEndOnly ==
    /\ SourceClosed => ENABLED ParseEof
    /\ p_state = "Ok" => (p_pos = Len(p_lines) /\ p_err = "")

CleanEndAndIgnoredLines ==
    /\ SourceClosed =>
           (p_state' = "Ok" /\ p_err' = "" /\ p_delivered' = p_delivered)
    /\ (p_state = "reading" /\ p_pos < Len(p_lines)
           /\ IgnoredLine(p_lines[p_pos + 1])) =>
           /\ p_pos' = p_pos + 1
           /\ p_state' = "reading"
           /\ p_buf' = p_buf
           /\ p_delivered' = p_delivered

\* C14: when the line source has closed, parse can always end, and the step
\* it takes returns Ok with no error and no observer call, whatever the
\* buffer holds; Ok is returned only there. Reading a line that is blank or
\* has no '=' changes neither the buffer nor the delivered snapshots, and
\* parse reads on.
C14_CleanEndAtSourceClose ==
    []CleanEndOnly /\ [][CleanEndAndIgnoredLines]_vars

\* parse returned Ok with a pair left in the buffer, after a snapshot and an
\* ignored line.
C14_Witness ==
    /\ p_state = "Ok"
    /\ p_lines = <<LineFrame10, LineContinue, LineBlank, LineFrame20>>
    /\ p_buf # EmptyMap
    /\ Len(p_delivered) = 1

\* ---- the supervisor's claims

\* The subprocess of job j has written, or is blocked writing, more lines
\* than one pipe holds to stdout and to stderr.
PendingWrites(j, stream) == IF blocked[j].stream = stream THEN 1 ELSE 0

WritesBeyondCapToBoth(j) ==
    /\ out_count[j] + PendingWrites(j, "out") > budget.cap
    /\ Len(err_written[j]) + PendingWrites(j, "err") > budget.cap

\* The steps open to job j, by their guards: the supervisor's pending read or
\* await is ready; the subprocess can write, finish a blocked write or exit;
\* the wait task can take the exit status.
SupervisorCanStep(j) ==
    /\ main_pc = "dispatch"
    /\ \/ pc[j] = "parse" /\ (out_pipe[j] # <<>> \/ EndOfStream(j, out_pipe[j]))
       \/ pc[j] = "drain" /\ (err_pipe[j] # <<>> \/ EndOfStream(j, err_pipe[j]))
       \/ pc[j] = "wait" /\ wait_status[j] # NoStatus

SubprocessCanStep(j) ==
    /\ proc[j] = "running"
    /\ \/ blocked[j] = NoWrite
       \/ ~ReaderOpen(j)
       \/ blocked[j].stream = "out" /\ Len(out_pipe[j]) < budget.cap
       \/ blocked[j].stream = "err" /\ Len(err_pipe[j]) < budget.cap

WaitTaskCanStep(j) ==
    main_pc = "dispatch" /\ proc[j] = "exited" /\ wait_status[j] = NoStatus

\* C1: a job whose subprocess writes more than one pipe buffer's worth to
\* both streams is never stuck: while execute_ffmpeg_encoding has not
\* returned, the subprocess, the wait task or the supervisor can take a step.
C1_NoDeadlock ==
    \A j \in jobs :
        (/\ main_pc = "dispatch"
         /\ pc[j] \in {"parse", "drain", "wait"}
         /\ WritesBeyondCapToBoth(j)) =>
            SupervisorCanStep(j) \/ SubprocessCanStep(j) \/ WaitTaskCanStep(j)

\* The text made of the lines in order, a line break after each, with the
\* last line break trimmed.
RECURSIVE JoinLines(_)
JoinLines(ls) ==
    IF ls = <<>> THEN <<>>
    ELSE IF Len(ls) = 1 THEN ls[1]
    ELSE ls[1] \o <<"\n">> \o JoinLines(Tail(ls))

\* error_string after the stderr loop has read every line of ls.
RECURSIVE CapturedText(_)
CapturedText(ls) ==
    IF ls = <<>> THEN <<>>
    ELSE append_error_line(CapturedText(SubSeq(ls, 1, Len(ls) - 1)), ls[Len(ls)])

\* C5: once the exit status has been collected, and so whenever a process
\* failure is returned, both stdout and stderr have reported end-of-stream
\* and every stderr line the subprocess wrote has been read.
C5_StatusCheckAfterBothEof ==
    \A j \in jobs :
        (status[j] # NoStatus \/ result[j].kind = "FFmpegError") =>
            /\ out_eof[j]
            /\ err_eof[j]
            /\ proc[j] = "exited"
            /\ out_pipe[j] = <<>>
            /\ err_pipe[j] = <<>>
            /\ err_read[j] = Len(err_written[j])

\* A process failure was returned after several stderr lines were read.
C5_Witness ==
    \E j \in jobs :
        /\ result[j].kind = "FFmpegError"
        /\ err_read[j] >= 2
        /\ out_count[j] >= 1

\* C6: the diagnostic text of a returned process failure is the stderr lines
\* the subprocess wrote, in order, joined by line breaks.
C6_DiagnosticTextIsStderr ==
    \A j \in jobs :
        result[j].kind = "FFmpegError" =>
            result[j].stderr = JoinLines(err_written[j])

C8_BatchReportsEveryJob ==
    main_pc # "dispatch" =>
        /\ \A j \in jobs : pc[j] = "done"
        /\ Len(printed) = Cardinality(jobs)

\* C9: a finished job whose frame-count query fails has reported a failure.
C9_FrameCountFailureFailsJob ==
    \A j \in jobs :
        (pc[j] = "done" /\ get_frame_count_from_file_path(j).kind = "Err") =>
            result[j].kind # "Ok"

\* C10: when parse has reported a protocol error, execute_ffmpeg_encoding
\* has returned that error in the same step: no stderr line was read, stderr
\* did not reach its end, the exit status was not collected, and the result
\* is the protocol error and no process failure.
C10_ProtocolErrorAbortsAtOnce ==
    \A j \in jobs :
        parse_ret[j].kind = "Err" =>
            /\ pc[j] = "done"
            /\ result[j] = ProtocolError(parse_ret[j].err)
            /\ err_read[j] = 0
            /\ ~err_eof[j]
            /\ error_string[j] = <<>>
            /\ status[j] = NoStatus

\* parse reported a protocol error for a subprocess that had written to
\* stderr and exited with a non-zero status.
C10_Witness ==
    \E j \in jobs :
        /\ parse_ret[j].kind = "Err"
        /\ proc[j] = "exited"
        /\ exit_code[j] = 1
        /\ err_written[j] # <<>>
        /\ wait_status[j] = 1

\* The positions of job j's lines among the printed lines.
ReportsOf(j) == {i \in 1..Len(printed) : printed[i].job = j}

\* Job j has exactly one printed line: the success line (the output path)
\* when its result is Ok; else the failure line (the input path), carrying
\* the error's text exactly when verbose is set.
ReportedAsClaimed(j) ==
    /\ Cardinality(ReportsOf(j)) = 1
    /\ \A i \in ReportsOf(j) :
          /\ printed[i].ok <=> result[j].kind = "Ok"
          /\ printed[i].detail = IF ~printed[i].ok /\ verbose THEN result[j] ELSE NoResult
          /\ ~printed[i].ok => result[j].kind \in {"SpawnError", "ProtocolError", "FFmpegError"}

\* C15: no job has more than one printed line; a job whose supervisor call
\* has returned, and every job once the batch is over, has exactly one: the
\* output path on success, the input path on failure, with the diagnostic
\* text exactly when the verbosity flag is set.
C15_OneReportLinePerJob ==
    \A j \in jobs :
        /\ Cardinality(ReportsOf(j)) <= 1
        /\ (pc[j] = "done" \/ main_pc # "dispatch") => ReportedAsClaimed(j)

\* Everything the model holds for job j alone.
JobState(j) ==
    <<pc[j], proc[j], exit_code[j], blocked[j], out_pipe[j], err_pipe[j],
      out_count[j], err_written[j], parsed_progress[j], parse_ret[j],
      delivered[j], error_string[j], err_read[j], out_eof[j], err_eof[j],
      wait_status[j], status[j], result[j]>>

OnlyOwnSink ==
    \A j \in jobs :
        /\ delivered'[j] # delivered[j] =>
              /\ pc[j] = "parse"
              /\ out_pipe[j] # <<>>
              /\ out_pipe'[j] = Tail(out_pipe[j])
              /\ Head(out_pipe[j]) \in ValidProgressLines
              /\ Len(delivered'[j]) = Len(delivered[j]) + 1
              /\ SubSeq(delivered'[j], 1, Len(delivered[j])) = delivered[j]
              /\ delivered'[j][Len(delivered'[j])].progress = PhaseOf(Head(out_pipe[j]))
        /\ JobState(j)' # JobState(j) =>
              \A k \in jobs \ {j} : JobState(k)' = JobState(k)

NoJobStarted ==
    /\ \A j \in JobIds : pc[j] = "queued" /\ proc[j] = "none"
    /\ bar_pos = 0
    /\ printed = <<>>

\* C17: main's run ends in one of two ways only: it returns an error from
\* input-path or output-path resolution, with no job started; or it returns
\* success after every job of the batch has finished, however many of them
\* failed.
C17_MainResultReflectsOnlySetup ==
    /\ main_pc = "failed" => NoJobStarted
    /\ main_pc = "finished" => \A j \in jobs : pc[j] = "done"
    /\ main_pc \in {"input_paths", "output_paths", "dispatch", "failed", "finished"}

\* Lines the supervisor of job j has taken out of a pipe.
StdoutLinesRead(j) == out_count[j] - Len(out_pipe[j])
StderrLinesRead(j) == Len(err_written[j]) - Len(err_pipe[j])

\* C18: from the moment the subprocess is spawned, before any line is read,
\* the wait task is there to take the exit status, wherever the supervisor
\* stands; no stderr line is read, and stderr does not reach its end, before
\* stdout has reached end-of-stream with every line read; the exit status
\* is collected only after stderr has reached its end.
C18_WaitSpawnedThenStdoutThenStderr ==
    \A j \in jobs :
        /\ (ReaderOpen(j) /\ proc[j] = "exited" /\ wait_status[j] = NoStatus) =>
               ENABLED WaitTask(j)
        /\ (StderrLinesRead(j) > 0 \/ err_read[j] > 0 \/ err_eof[j]) =>
               (out_eof[j] /\ StdoutLinesRead(j) = out_count[j])
        /\ pc[j] = "parse" => (~out_eof[j] /\ StderrLinesRead(j) = 0)
        /\ pc[j] = "drain" => (out_eof[j] /\ ~err_eof[j] /\ status[j] = NoStatus)
        /\ status[j] # NoStatus => (out_eof[j] /\ err_eof[j])

\* The wait task has taken the exit status while the supervisor has not read
\* a single line of what the subprocess wrote to both streams.
C18_Witness ==
    \E j \in jobs :
        /\ pc[j] = "parse"
        /\ wait_status[j] # NoStatus
        /\ out_count[j] >= 1 /\ StdoutLinesRead(j) = 0
        /\ err_written[j] # <<>> /\ StderrLinesRead(j) = 0

ReturnedJobs == {j \in jobs : pc[j] = "done"}

CounterCountsReturnedJobs ==
    /\ bar_pos = Cardinality(ReturnedJobs)
    /\ bar_pos <= Cardinality(jobs)
    /\ main_pc = "finished" => bar_pos = Cardinality(jobs)

OneIncrementPerReturnNoRetry ==
    /\ bar_pos' \in {bar_pos, bar_pos + 1}
    /\ bar_pos' = bar_pos + 1 <=>
           \E j \in jobs : /\ pc[j] \in {"queued", "parse", "wait"}
                           /\ pc'[j] = "done"
                           /\ result[j] = NoResult /\ result'[j] # NoResult
    /\ \A j \in jobs :
           /\ pc[j] # "queued" => pc'[j] # "queued"
           /\ pc[j] = "done" => (pc'[j] = "done" /\ result'[j] = result[j])
           /\ (proc'[j] = "running" /\ proc[j] # "running") => pc[j] = "queued"

\* C19: the progress bar's position is the number of jobs whose supervisor
\* call has returned, so it never exceeds the number of jobs and equals it
\* when main returns; it moves by one in exactly the steps in which a job's
\* call returns, with an Ok or an error; a job that has left the queue never
\* returns to it, a returned job stays returned with its result, and a
\* subprocess is spawned only for a queued job.
C19_CounterOncePerJobNoRetry ==
    []CounterCountsReturnedJobs /\ [][OneIncrementPerReturnNoRetry]_vars

\* main returned after a batch in which one job succeeded and one failed.
C19_Witness ==
    /\ main_pc = "finished"
    /\ bar_pos = NJobs
    /\ \E j, k \in jobs : result[j].kind = "Ok" /\ result[k].kind = "FFmpegError"

====
